---- MODULE Spec2Model ----
(***************************************************************************)
(* A model of diffpy.labpdfproc: the command line application              *)
(* (labpdfprocapp.py) and its helpers (tools.py).                          *)
(*                                                                         *)
(* Text is modelled in two ways.  Where the code inspects characters       *)
(* (strip, lower, split on "=", float parsing) a Python str is a sequence  *)
(* of pieces, each piece a TLA+ string holding one character or one word   *)
(* without "=" or white space; Cat joins the pieces into the TLA+ string   *)
(* the Python str denotes.  Namespace keys and messages are TLA+ strings.  *)
(*                                                                         *)
(* A Python float is a decimal [neg, mant, exp] = (-1)^neg * mant / 10^exp *)
(* in lowest terms (no trailing zero in the fraction, zero is unsigned).   *)
(***************************************************************************)
EXTENDS Integers, Sequences, FiniteSets, TLC

VARIABLES
    call,    \* the last call of a helper function: its name, input and outcome
    fs,      \* the output files: path -> content, or NoFile
    dirs,    \* the directories that exist
    args,    \* the caller's Namespace after the last invocation
    res,     \* the record of the invocation of main
    pc       \* "start" before main has run, "done" after

vars == <<call, fs, dirs, args, res, pc>>

(***************************************************************************)
(* Bounds of the model                                                     *)
(***************************************************************************)
MaxStrLen == 3
MaxItems == 2

(***************************************************************************)
(* Python values                                                           *)
(***************************************************************************)
None == [type |-> "NoneType"]
Bool(b) == [type |-> "bool", b |-> b]
List(items) == [type |-> "list", items |-> items]
Path(p) == [type |-> "Path", p |-> p]
Float(neg, mant, exp) == [type |-> "float", neg |-> neg, mant |-> mant, exp |-> exp]
Str(s) == [type |-> "str", s |-> s]

Returned(v) == [kind |-> "return", val |-> v]
Raised(exc, msg) == [kind |-> "raise", exc |-> exc, msg |-> msg]

RECURSIVE Cat(_)
Cat(s) == IF s = <<>> THEN "" ELSE Head(s) \o Cat(Tail(s))

RECURSIVE Join(_, _)
Join(strs, sep) ==
    IF strs = <<>> THEN ""
    ELSE IF Len(strs) = 1 THEN Head(strs)
    ELSE Head(strs) \o sep \o Join(Tail(strs), sep)

\* str.isspace of one piece
IsSpace(c) == c = " "

\* str.strip(): leading and trailing white space removed
RECURSIVE LStrip(_)
LStrip(s) == IF s # <<>> /\ IsSpace(Head(s)) THEN LStrip(Tail(s)) ELSE s

RECURSIVE RStrip(_)
RStrip(s) ==
    IF s # <<>> /\ IsSpace(s[Len(s)]) THEN RStrip(SubSeq(s, 1, Len(s) - 1)) ELSE s

Strip(s) == RStrip(LStrip(s))

\* str.lower() of one character
LowerChar(c) ==
    CASE c = "M" -> "m"
      [] c = "O" -> "o"
      [] c = "A" -> "a"
      [] c = "G" -> "g"
      [] c = "C" -> "c"
      [] c = "U" -> "u"
      [] c = "K" -> "k"
      [] OTHER -> c

Lower(s) == [i \in 1..Len(s) |-> LowerChar(s[i])]

\* the code point order of the characters the table's keys are made of
Ord(c) ==
    CASE c = "A" -> 65
      [] c = "C" -> 67
      [] c = "M" -> 77
      [] c = "g" -> 103
      [] c = "o" -> 111
      [] c = "u" -> 117
      [] OTHER -> 0

\* Python's order of two str: by code point, a proper prefix first
RECURSIVE StrLess(_, _)
StrLess(a, b) ==
    IF b = <<>> THEN FALSE
    ELSE IF a = <<>> THEN TRUE
    ELSE IF Ord(Head(a)) # Ord(Head(b)) THEN Ord(Head(a)) < Ord(Head(b))
    ELSE StrLess(Tail(a), Tail(b))

\* sorted(S) of a finite set of str
RECURSIVE Sorted(_)
Sorted(S) ==
    IF S = {} THEN <<>>
    ELSE LET m == CHOOSE x \in S : \A y \in S \ {x} : StrLess(x, y)
         IN  <<m>> \o Sorted(S \ {m})

(***************************************************************************)
(* float(x)                                                                *)
(***************************************************************************)
Digits == {"0", "1", "2", "3", "4", "5", "6", "7", "8", "9"}

DigitVal(c) ==
    CASE c = "0" -> 0 [] c = "1" -> 1 [] c = "2" -> 2 [] c = "3" -> 3
      [] c = "4" -> 4 [] c = "5" -> 5 [] c = "6" -> 6 [] c = "7" -> 7
      [] c = "8" -> 8 [] c = "9" -> 9

RECURSIVE DigitsVal(_, _)
DigitsVal(s, acc) ==
    IF s = <<>> THEN acc ELSE DigitsVal(Tail(s), 10 * acc + DigitVal(Head(s)))

\* a decimal in lowest terms
RECURSIVE Normal(_, _, _)
Normal(neg, mant, exp) ==
    IF mant = 0 THEN Float(FALSE, 0, 0)
    ELSE IF exp > 0 /\ mant % 10 = 0 THEN Normal(neg, mant \div 10, exp - 1)
    ELSE Float(neg, mant, exp)

\* the str that float() accepts: optional white space around an optional sign
\* and a decimal numeral with at least one digit and at most one point
FloatBody(s) == IF s # <<>> /\ Head(s) \in {"-", "+"} THEN Tail(s) ELSE s

FloatParses(s) ==
    LET b == FloatBody(Strip(s))
        points == {i \in 1..Len(b) : b[i] = "."}
    IN  /\ \A i \in 1..Len(b) : b[i] \in Digits \cup {"."}
        /\ Cardinality(points) <= 1
        /\ \E i \in 1..Len(b) : b[i] \in Digits

FloatOfStr(s) ==
    LET t == Strip(s)
        b == FloatBody(t)
        points == {i \in 1..Len(b) : b[i] = "."}
        p == IF points = {} THEN Len(b) + 1 ELSE CHOOSE i \in points : TRUE
        whole == SubSeq(b, 1, p - 1)
        frac == SubSeq(b, p + 1, Len(b))
    IN  Normal(t # <<>> /\ Head(t) = "-", DigitsVal(whole \o frac, 0), Len(frac))

(***************************************************************************)
(* tools.WAVELENGTHS and labpdfprocapp.resolve_wavelength                  *)
(***************************************************************************)
WAVELENGTHS ==
    (<<"M", "o">> :> Float(FALSE, 71, 2)) @@
    (<<"A", "g">> :> Float(FALSE, 59, 2)) @@
    (<<"C", "u">> :> Float(FALSE, 154, 2))

known_sources == DOMAIN WAVELENGTHS

RECURSIVE CatAll(_)
CatAll(ss) == IF ss = <<>> THEN <<>> ELSE <<Cat(Head(ss))>> \o CatAll(Tail(ss))

\* next((k for k in sources if k.lower() == name), None): the first in order
RECURSIVE FirstMatchFrom(_, _)
FirstMatchFrom(sources, name) ==
    IF sources = <<>> THEN None
    ELSE IF Lower(Head(sources)) = name THEN Str(Head(sources))
    ELSE FirstMatchFrom(Tail(sources), name)

\* the name a str is compared by: str(wavelength).strip().lower()
SourceName(s) == Lower(Strip(s))

resolve_wavelength(wavelength) ==
    IF wavelength = None
    THEN Raised("ValueError",
                "X-ray wavelength must be provided as a positional argument "
                \o "after the diffraction data file.")
    ELSE IF wavelength.type = "float" THEN Returned(wavelength)
    ELSE IF FloatParses(wavelength.s) THEN Returned(FloatOfStr(wavelength.s))
    ELSE LET sources == Sorted(DOMAIN WAVELENGTHS)
             matched == FirstMatchFrom(sources, SourceName(wavelength.s))
         IN  IF matched = None
             THEN Raised("ValueError",
                         "Unknown X-ray source '" \o Cat(wavelength.s) \o "'. "
                         \o "Allowed sources are: "
                         \o Join(CatAll(sources), ", ") \o ".")
             ELSE Returned(WAVELENGTHS[matched.s])

(***************************************************************************)
(* tools.set_wavelength                                                    *)
(***************************************************************************)
\* x <= 0 and bool(x) of a float
NonPositive(x) == x.neg \/ x.mant = 0
Truthy(v) ==
    CASE v = None -> FALSE
      [] v.type = "float" -> v.mant # 0
      [] v.type = "str" -> v.s # <<>>
      [] v.type = "bool" -> v.b
      [] v.type = "list" -> v.items # <<>>
      [] OTHER -> TRUE

\* the anode_type that the second check of set_wavelength rejects
AnodeRejected(a) == Truthy(a.anode_type) /\ a.anode_type.s \notin DOMAIN WAVELENGTHS

set_wavelength(a) ==
    IF a.wavelength # None /\ NonPositive(a.wavelength)
    THEN Raised("ValueError",
                "No valid wavelength. Please rerun specifying a known "
                \o "anode_type or a positive wavelength.")
    ELSE IF ~Truthy(a.wavelength) /\ AnodeRejected(a)
    THEN Raised("ValueError",
                "Anode type not recognized. Please rerun specifying an "
                \o "anode_type from ('Mo', 'Ag', 'Cu').")
    ELSE IF Truthy(a.wavelength) THEN Returned(a.wavelength)
    ELSE IF Truthy(a.anode_type) THEN Returned(WAVELENGTHS[a.anode_type.s])
    ELSE Returned(WAVELENGTHS[<<"M", "o">>])

(***************************************************************************)
(* User metadata: tools._load_key_value_pair, tools.load_user_metadata and *)
(* labpdfprocapp._load_user_metadata.  A Namespace is a function from its  *)
(* attribute names to their values; the outcome of a loader carries the    *)
(* Namespace as the loader left it.                                        *)
(***************************************************************************)
ReturnedArgs(ns) == [kind |-> "return", args |-> ns]
RaisedIn(ns, exc, msg) == [kind |-> "raise", exc |-> exc, msg |-> msg, args |-> ns]

setattr(ns, key, value) ==
    [k \in DOMAIN ns \cup {key} |-> IF k = key THEN value ELSE ns[k]]
delattr(ns, key) == [k \in DOMAIN ns \ {key} |-> ns[k]]
hasattr(ns, key) == key \in DOMAIN ns

\* "=" in item
HasEq(item) == \E i \in 1..Len(item) : item[i] = "="

\* s.split("=")
RECURSIVE SplitEq(_)
SplitEq(s) ==
    LET idx == {i \in 1..Len(s) : s[i] = "="}
    IN  IF idx = {} THEN <<s>>
        ELSE LET i == CHOOSE j \in idx : \A k \in idx : j <= k
             IN  <<SubSeq(s, 1, i - 1)>> \o SplitEq(SubSeq(s, i + 1, Len(s)))

\* "=".join(parts)
RECURSIVE JoinEq(_)
JoinEq(parts) ==
    IF parts = <<>> THEN <<>>
    ELSE IF Len(parts) = 1 THEN Head(parts)
    ELSE Head(parts) \o <<"=">> \o JoinEq(Tail(parts))

\* the pair of an item split at its last "=" instead of its first
KeyValue_LastEq(s) ==
    LET items == SplitEq(s)
    IN  [key |-> Cat(Strip(JoinEq(SubSeq(items, 1, Len(items) - 1)))),
         value |-> Str(items[Len(items)])]

\* tools._load_key_value_pair (its caller passes only items that hold "=")
_load_key_value_pair(s) ==
    LET items == SplitEq(s)
    IN  [key |-> Cat(Strip(items[1])), value |-> Str(JoinEq(Tail(items)))]

\* the key and value of labpdfprocapp._load_user_metadata
KeyValueApp(item) ==
    LET items == SplitEq(item)
    IN  [key |-> Cat(Strip(items[1])),
         value |-> IF Len(items) > 1 THEN Str(Strip(JoinEq(Tail(items))))
                   ELSE Str(<<>>)]

\* (the messages are written without the back quotes around the command)
FormatMsgApp ==
    "Please provide key-value pairs in the format key=value. "
    \o "For more information, use labpdfproc --help."
FormatMsgTools ==
    "Please provide key-value pairs in the format key=value. "
    \o "For more information, use labpdfproc --help."
ReservedMsgApp(key) == key \o " is a reserved name. Please use a different key name."
ReservedMsgTools(key) ==
    key \o " is a reserved name.  Please rerun using a different key name. "
DuplicateMsgApp(key) == "Duplicate key: " \o key \o "."
RepeatedMsgTools(key) == "Please do not specify repeated keys: " \o key \o ". "

\* a loader that takes no key for reserved
IsReserved_Never(key, reserved_keys) == FALSE
IsReserved(key, reserved_keys) == key \in reserved_keys

\* the loop of labpdfprocapp._load_user_metadata; reserved_keys is the set
\* of attribute names taken before the loop
RECURSIVE LoadItemsApp(_, _, _)
LoadItemsApp(ns, reserved_keys, items) ==
    IF items = <<>> THEN ReturnedArgs(ns)
    ELSE LET item == Head(items)
             kv == KeyValueApp(item)
         IN  IF ~HasEq(item) THEN RaisedIn(ns, "ValueError", FormatMsgApp)
             ELSE IF IsReserved(kv.key, reserved_keys)
             THEN RaisedIn(ns, "ValueError", ReservedMsgApp(kv.key))
             ELSE IF hasattr(ns, kv.key)
             THEN RaisedIn(ns, "ValueError", DuplicateMsgApp(kv.key))
             ELSE LoadItemsApp(setattr(ns, kv.key, kv.value), reserved_keys,
                               Tail(items))

_load_user_metadata(ns) ==
    IF ~Truthy(ns["user_metadata"]) THEN ReturnedArgs(ns)
    ELSE LoadItemsApp(ns, DOMAIN ns, ns["user_metadata"].items)

\* the loop of tools.load_user_metadata; reserved_keys = vars(args).keys()
\* is a view of the Namespace's dict: it holds the keys the loop has added
RECURSIVE LoadItemsTools(_, _)
LoadItemsTools(ns, items) ==
    IF items = <<>> THEN ReturnedArgs(delattr(ns, "user_metadata"))
    ELSE LET item == Head(items)
             kv == _load_key_value_pair(item)
         IN  IF ~HasEq(item) THEN RaisedIn(ns, "ValueError", FormatMsgTools)
             ELSE IF IsReserved(kv.key, DOMAIN ns)
             THEN RaisedIn(ns, "ValueError", ReservedMsgTools(kv.key))
             ELSE IF hasattr(ns, kv.key)
             THEN RaisedIn(ns, "ValueError", RepeatedMsgTools(kv.key))
             ELSE LoadItemsTools(setattr(ns, kv.key, kv.value), Tail(items))

load_user_metadata(ns) ==
    IF Truthy(ns["user_metadata"])
    THEN LoadItemsTools(ns, ns["user_metadata"].items)
    ELSE ReturnedArgs(delattr(ns, "user_metadata"))

(***************************************************************************)
(* The inputs of the helper functions                                      *)
(***************************************************************************)
\* all sequences over S of length at most n
RECURSIVE SeqsUpTo(_, _)
SeqsUpTo(S, n) ==
    IF n = 0 THEN {<<>>}
    ELSE LET shorter == SeqsUpTo(S, n - 1)
         IN  shorter \cup {Append(s, x) : s \in shorter, x \in S}

WavelengthChars == {"M", "m", "o", "O", "A", "g", "1", "5", ".", " ", "-"}
WavelengthFloats == {Float(FALSE, 154, 2), Float(FALSE, 0, 0), Float(TRUE, 1, 0)}
\* the sources the tests of resolve_wavelength name
TestSources ==
    {Str(<<"M", "o", "K", "a", "1">>), Str(<<"C", "u", "K", "a", "1">>),
     Str(<<"invalid_source">>)}
WavelengthInputs ==
    {None} \cup WavelengthFloats \cup TestSources
    \cup {Str(s) : s \in SeqsUpTo(WavelengthChars, MaxStrLen)}

AnodeInputs ==
    {None, Str(<<>>), Str(<<"M", "o">>), Str(<<"A", "g">>), Str(<<"C", "u">>),
     Str(<<"m", "o">>), Str(<<"invalid">>)}
SetWavelengthInputs ==
    {[wavelength |-> w, anode_type |-> a] :
        w \in {None, Float(FALSE, 0, 0), Float(TRUE, 1, 0), Float(FALSE, 25, 2),
               Float(FALSE, 154, 2)},
        a \in AnodeInputs}

UserKeyTexts == {<<"wavelength">>, <<"facility">>, <<" ", "facility", " ">>, <<"x">>}
UserValueTexts == {<<>>, <<"2">>, <<" ", "2", " ">>, <<"y", "=", "z">>}
UserItems ==
    UserKeyTexts \cup {k \o <<"=">> \o v : k \in UserKeyTexts, v \in UserValueTexts}

\* the Namespace the loaders are given: the parser's attributes
LoaderNamespace(user_metadata) ==
    [wavelength |-> Float(FALSE, 25, 1),
     xtype |-> Str(<<"tth">>),
     user_metadata |-> user_metadata]
LoaderInputs ==
    {LoaderNamespace(None)}
    \cup {LoaderNamespace(List(l)) : l \in SeqsUpTo(UserItems, MaxItems)}

(***************************************************************************)
(* The specification of the helper functions: each step is one call        *)
(***************************************************************************)
NoCall == [fn |-> "none"]

CallResolveWavelength ==
    /\ call = NoCall
    /\ \E w \in WavelengthInputs :
        call' = [fn |-> "resolve_wavelength", arg |-> w,
                 out |-> resolve_wavelength(w)]

CallSetWavelength ==
    /\ call = NoCall
    /\ \E a \in SetWavelengthInputs :
        call' = [fn |-> "set_wavelength", arg |-> a, out |-> set_wavelength(a)]

CallLoadUserMetadataTools ==
    /\ call = NoCall
    /\ \E ns \in LoaderInputs :
        call' = [fn |-> "load_user_metadata", arg |-> ns,
                 out |-> load_user_metadata(ns)]

CallLoadUserMetadataApp ==
    /\ call = NoCall
    /\ \E ns \in LoaderInputs :
        call' = [fn |-> "_load_user_metadata", arg |-> ns,
                 out |-> _load_user_metadata(ns)]

(***************************************************************************)
(* The pipeline of labpdfprocapp.py.  A run is computed on a record st of  *)
(* the run's state: the error raised so far (None while none is), the      *)
(* stages performed (events), the file system, the caller's Namespace and  *)
(* the objects the run has built.  A stage leaves st alone once an error   *)
(* has been raised: the exception propagates out of run_* and main.        *)
(***************************************************************************)
NoFile == [type |-> "nofile"]
OldFile == [type |-> "file", name |-> "(an earlier file)", mud |-> None]
FileOf(obj) ==
    [type |-> "file", name |-> obj.name, mud |-> obj.metadata["mud"],
     metadata |-> obj.metadata]

Cwd == "."
Event(op, at) == [op |-> op, at |-> at]
Ev(st, op, at) == [st EXCEPT !.events = Append(@, Event(op, at))]
Fail(st, out) == [st EXCEPT !.err = [exc |-> out.exc, msg |-> out.msg]]
Failed(st) == st.err # None

\* Path(p).stem of a file name: the name without its last suffix
Stem(s) ==
    LET dots == {i \in 2..Len(s) : s[i] = "."}
    IN  IF dots = {} THEN Cat(s)
        ELSE Cat(SubSeq(s, 1, (CHOOSE i \in dots : \A j \in dots : j <= i) - 1))

\* Path(args.target_dir) if args.target_dir else Path.cwd()
TargetDir(ns) == IF Truthy(ns["target_dir"]) THEN Cat(ns["target_dir"].s) ELSE Cwd

\* diffpy.utils.tools.get_user_info: the given values, as the owner's
get_user_info(owner_name, owner_email, owner_orcid) ==
    [owner_name |-> owner_name, owner_email |-> owner_email,
     owner_orcid |-> owner_orcid]

_load_user_info(ns) ==
    LET config == get_user_info(ns["username"], ns["email"], ns["orcid"])
    IN  setattr(setattr(setattr(ns, "username", config.owner_name),
                        "email", config.owner_email),
                "orcid", config.owner_orcid)

\* diffpy.utils.tools.get_package_info("diffpy.labpdfproc")["package_info"]
PackageInfo == [type |-> "dict", of |-> "diffpy.labpdfproc"]

_load_package_info(ns) == setattr(ns, "package_info", PackageInfo)

\* tools.load_metadata: the Namespace as a dict, without the attributes that
\* only steer the run, with the input file and the output directory as text
METADATA_KEYS_TO_EXCLUDE ==
    {"xray_data", "wavelength", "mud_value", "zscan_file", "target_dir",
     "force", "output_correction", "user_metadata"}

load_metadata(ns, filepath) ==
    LET kept == (DOMAIN ns \ METADATA_KEYS_TO_EXCLUDE) \cup {"input_file"}
    IN  [k \in kept |->
            IF k = "input_file" THEN Str(filepath)
            ELSE IF k = "output_directory" THEN Str(<<ns[k].p>>)
            ELSE ns[k]]

\* the args_copy of _prepare_args as it reaches load_metadata, or the error
\* _load_user_metadata raised
ArgsCopy(ns) ==
    LET args_copy == setattr(ns, "output_directory", Path(TargetDir(ns)))
        loaded == _load_user_metadata(args_copy)
    IN  IF loaded.kind = "raise" THEN loaded
        ELSE ReturnedArgs(_load_package_info(_load_user_info(loaded.args)))

_prepare_args(ns, input_path) ==
    LET prepared == ArgsCopy(ns)
    IN  IF prepared.kind = "raise" THEN Raised(prepared.exc, prepared.msg)
        ELSE Returned(load_metadata(prepared.args, input_path))

\* _prepare_args working on the caller's Namespace itself
CallerArgs_Shared(ns, prepared) == prepared.args
\* the caller's Namespace after _prepare_args: args_copy is a new Namespace
\* built from vars(args), so what the loaders set is not set on args
CallerArgs(ns, prepared) == ns

\* the run's state when run_* is entered
St0(ns, files, directories) ==
    [err |-> None, events |-> <<>>, fs |-> files, dirs |-> directories,
     args |-> ns, args_copy |-> None, wavelength |-> None, mud |-> None, energy_kev |-> None,
     cve_mud |-> None, metadata |-> None, pattern |-> None,
     correction |-> None, corrected |-> None]

\* A dict is held by value together with the identity of the object
\* (metadata_id): two attributes with the same identity are one dict.
\* metadata.copy() is a new dict, named fresh here, with the same content
DictCopy_Shared(id, fresh) == id
DictCopy(id, fresh) == fresh

\* a key set in the dict with identity id: every object holding that dict
\* sees it
SetKeyOf(obj, id, key, value) ==
    IF obj # None /\ obj.metadata # None /\ obj.metadata_id = id
    THEN [obj EXCEPT !.metadata = setattr(@, key, value)]
    ELSE obj
SetKey(st, id, key, value) ==
    [st EXCEPT !.metadata = IF id = "metadata" THEN setattr(@, key, value) ELSE @,
               !.pattern = SetKeyOf(@, id, key, value),
               !.correction = SetKeyOf(@, id, key, value),
               !.corrected = SetKeyOf(@, id, key, value)]

\* the outcome of a call: the error raised, or the value in field f of st
Bind(st, out, f) ==
    IF out.kind = "raise" THEN Fail(st, out) ELSE [st EXCEPT ![f] = out.val]

\* a loader that answers a failure of loadData with a pattern all the same
_load_pattern_Masking(path, wavelength, metadata, env) ==
    Returned([name |-> Stem(path), wavelength |-> wavelength,
              metadata |-> metadata, metadata_id |-> "metadata"])
\* _load_pattern: loadData raises on a file it cannot read
_load_pattern(path, wavelength, metadata, env) ==
    IF env.loadData = "raise"
    THEN Raised("ValueError", "loadData: the file cannot be read")
    ELSE Returned([name |-> Stem(path), wavelength |-> wavelength,
                   metadata |-> metadata, metadata_id |-> "metadata"])

\* functions.compute_cve: the correction curve of the pattern for mud
compute_cve(pattern, mud) ==
    [name |-> "absorption correction, 1/cve, for " \o pattern.name,
     mud |-> mud, metadata |-> pattern.metadata,
     metadata_id |-> pattern.metadata_id]

\* functions.apply_corr: the pattern scaled by the curve
apply_corr(pattern, correction) ==
    [name |-> pattern.name, curve |-> correction.mud, metadata |-> pattern.metadata,
     metadata_id |-> pattern.metadata_id]

\* energy_kev = 12.398 / wavelength
EnergyKev(wavelength) ==
    IF wavelength.mant = 0
    THEN Raised("ZeroDivisionError", "float division by zero")
    ELSE Returned([type |-> "float quotient", num |-> Float(FALSE, 12398, 3),
                   den |-> wavelength])

\* diffpy.utils.tools.compute_mu_using_xraydb: proportional to the density,
\* or an error of the library
compute_mu_using_xraydb(density, env) ==
    IF env.xraydb = "raise"
    THEN Raised("ValueError", "compute_mu_using_xraydb failed")
    ELSE Returned(Normal(density.neg, 39 * density.mant, density.exp + 1))

(***************************************************************************)
(* _save_corrected and _save_correction                                    *)
(***************************************************************************)
Exists(files, p) == p \in DOMAIN files /\ files[p] # NoFile
WriteFile(files, p, content) ==
    [q \in DOMAIN files \cup {p} |-> IF q = p THEN content ELSE files[q]]

\* a save that overwrites whatever is there
SkipsExisting_Never(exists, force) == FALSE
\* outfile.exists() and not args.force
SkipsExisting(exists, force) == exists /\ ~Truthy(force)

\* target_dir.mkdir(parents=True, exist_ok=True)
Mkdir(st, target_dir) ==
    [st EXCEPT !.dirs = @ \cup {target_dir},
               !.events = Append(@, Event("mkdir", target_dir))]

\* obj.metadata = obj.metadata or {}; obj.dump(str(outfile), xtype=args.xtype)
\* DiffractionObject.dump writes a creation_time; env.dump says whether it
\* also sets it in the object's metadata dict
Dump(st, field, outfile, env) ==
    LET written ==
            [st EXCEPT ![field].metadata = IF @ = None THEN <<>> ELSE @,
                       !.fs = WriteFile(@, outfile, FileOf(st[field])),
                       !.events = @ \o <<Event("set " \o field \o ".metadata", ""),
                                         Event("dump", outfile)>>]
    IN  IF env.dump = "sets creation_time"
        THEN SetKey(written, st[field].metadata_id, "creation_time", Str(<<"now">>))
        ELSE written

\* a save that raises on an existing file instead of warning
SaveObject_FailOnExisting(st, field, outfile, env) ==
    IF SkipsExisting(Exists(st.fs, outfile), st.args["force"])
    THEN Fail(Ev(st, "warn", outfile),
              Raised("FileExistsError", outfile \o " already exists"))
    ELSE Dump(st, field, outfile, env)
\* the body the two save functions share, after mkdir: warn or dump
SaveObject(st, field, outfile, env) ==
    IF SkipsExisting(Exists(st.fs, outfile), st.args["force"])
    THEN Ev(st, "warn", outfile)
    ELSE Dump(st, field, outfile, env)

_save_corrected(st, input_path, env) ==
    SaveObject(Mkdir(st, TargetDir(st.args)), "corrected",
               TargetDir(st.args) \o "/" \o Stem(input_path) \o "_corrected.chi",
               env)

_save_correction(st, input_path, env) ==
    SaveObject(Mkdir(st, TargetDir(st.args)), "correction",
               TargetDir(st.args) \o "/" \o Stem(input_path) \o "_cve.chi",
               env)

(***************************************************************************)
(* The subcommands.  The body of a run_* function is the sequence of its   *)
(* statements; Exec is the effect of one statement on the run's state and  *)
(* ExecAll runs a body until an exception leaves it.  env holds what the   *)
(* outside world answers: whether loadData reads the input file, and the   *)
(* outcomes of diffpy.utils.tools.compute_mud and compute_mu_using_xraydb. *)
(***************************************************************************)
\* the derived name given to the correction curve instead
SetName_OfCorrection(st, name) == [st EXCEPT !.correction.name = name]
\* corrected_data.name = ...
SetName(st, name) == [st EXCEPT !.corrected.name = name]

\* a call of compute_cve or apply_corr: it returns its value or raises
CallLibrary(outcome, fn, value) ==
    IF outcome = "raise" THEN Raised("ValueError", fn \o " failed")
    ELSE Returned(value)

\* the attributes of args only one subcommand's parser defines, by the
\* statement that reads them: reading one that is missing is an AttributeError
AttrsRead(stmt) ==
    CASE stmt = "args.mud = args.mud_value" -> {"mud_value"}
      [] stmt = "zscan_path = Path(args.zscan_file)" -> {"zscan_file"}
      [] stmt = "mud = compute_mu_using_xraydb(args.composition, energy_kev, args.density)" ->
            {"composition", "density"}
      [] OTHER -> {}

Exec(st, stmt, env) ==
    LET path == st.args["xray_data"].s
        s == Ev(st, stmt, "")
    IN  IF AttrsRead(stmt) \ DOMAIN s.args # {}
        THEN Fail(s, Raised("AttributeError",
                            "'Namespace' object has no attribute"))
        ELSE
        CASE stmt \in {"path = Path(args.xray_data)",
                      "zscan_path = Path(args.zscan_file)"} -> s
          [] stmt = "wavelength = resolve_wavelength(args.wavelength)" ->
                Bind(s, resolve_wavelength(s.args["wavelength"]), "wavelength")
          [] stmt = "args.mud = args.mud_value" ->
                [s EXCEPT !.args = setattr(@, "mud", @["mud_value"])]
          [] stmt = "mud = compute_mud(zscan_path)" ->
                Bind(s, env.compute_mud, "mud")
          [] stmt = "energy_kev = 12.398 / wavelength" ->
                Bind(s, EnergyKev(s.wavelength), "energy_kev")
          [] stmt = "mud = compute_mu_using_xraydb(args.composition, energy_kev, args.density)" ->
                Bind(s, compute_mu_using_xraydb(s.args["density"], env), "mud")
          [] stmt = "args.mud = mud" ->
                [s EXCEPT !.args = setattr(@, "mud", s.mud)]
          [] stmt = "args.z_scan_file = str(zscan_path)" ->
                [s EXCEPT !.args = setattr(@, "z_scan_file", @["zscan_file"])]
          [] stmt = "args.sample_composition = args.composition" ->
                [s EXCEPT !.args = setattr(@, "sample_composition", @["composition"])]
          [] stmt = "args.sample_mass_density = args.density" ->
                [s EXCEPT !.args = setattr(@, "sample_mass_density", @["density"])]
          [] stmt = "args.energy = energy_kev" ->
                [s EXCEPT !.args = setattr(@, "energy", s.energy_kev)]
          [] stmt = "metadata = _prepare_args(args, path)" ->
                Bind([s EXCEPT !.args = CallerArgs(@, ArgsCopy(@)),
                               !.args_copy = ArgsCopy(s.args).args],
                     _prepare_args(s.args, path), "metadata")
          [] stmt = "pattern = _load_pattern(path, args.xtype, wavelength, metadata)" ->
                Bind(s, _load_pattern(path, s.wavelength, s.metadata, env), "pattern")
          [] stmt = "correction = compute_cve(pattern, args.mud)" ->
                Bind([s EXCEPT !.cve_mud = s.args["mud"]],
                     CallLibrary(env.compute_cve, "compute_cve",
                                 compute_cve(s.pattern, s.args["mud"])),
                     "correction")
          [] stmt = "correction = compute_cve(pattern, mud)" ->
                Bind([s EXCEPT !.cve_mud = s.mud],
                     CallLibrary(env.compute_cve, "compute_cve",
                                 compute_cve(s.pattern, s.mud)),
                     "correction")
          [] stmt = "correction.metadata = metadata.copy()" ->
                [s EXCEPT !.correction.metadata = s.metadata,
                          !.correction.metadata_id = DictCopy("metadata", "copy 1")]
          [] stmt = "corrected_data = apply_corr(pattern, correction)" ->
                Bind(s, CallLibrary(env.apply_corr, "apply_corr",
                                    apply_corr(s.pattern, s.correction)),
                     "corrected")
          [] stmt = "corrected_data.name = f'Absorption corrected input_data: {pattern.name}'" ->
                SetName(s, "Absorption corrected input_data: " \o s.pattern.name)
          [] stmt = "corrected_data.metadata = metadata.copy()" ->
                [s EXCEPT !.corrected.metadata = s.metadata,
                          !.corrected.metadata_id = DictCopy("metadata", "copy 2")]
          [] stmt = "_save_corrected(corrected_data, path, args)" ->
                _save_corrected(s, path, env)
          [] stmt = "if args.output_correction: _save_correction(correction, path, args)" ->
                IF Truthy(s.args["output_correction"])
                THEN _save_correction(s, path, env)
                ELSE s

RECURSIVE ExecAll(_, _, _)
ExecAll(st, stmts, env) ==
    IF stmts = <<>> \/ Failed(st) THEN st
    ELSE ExecAll(Exec(st, Head(stmts), env), Tail(stmts), env)

run_mud_body ==
    <<"path = Path(args.xray_data)",
      "wavelength = resolve_wavelength(args.wavelength)",
      "args.mud = args.mud_value",
      "metadata = _prepare_args(args, path)",
      "pattern = _load_pattern(path, args.xtype, wavelength, metadata)",
      "correction = compute_cve(pattern, args.mud)",
      "correction.metadata = metadata.copy()",
      "corrected_data = apply_corr(pattern, correction)",
      "corrected_data.name = f'Absorption corrected input_data: {pattern.name}'",
      "corrected_data.metadata = metadata.copy()",
      "_save_corrected(corrected_data, path, args)",
      "if args.output_correction: _save_correction(correction, path, args)">>

\* run_zscan with the two save calls in the other order
run_zscan_body_CorrectionFirst ==
    <<"path = Path(args.xray_data)",
      "zscan_path = Path(args.zscan_file)",
      "wavelength = resolve_wavelength(args.wavelength)",
      "mud = compute_mud(zscan_path)",
      "args.mud = mud",
      "args.z_scan_file = str(zscan_path)",
      "metadata = _prepare_args(args, path)",
      "pattern = _load_pattern(path, args.xtype, wavelength, metadata)",
      "correction = compute_cve(pattern, mud)",
      "correction.metadata = metadata.copy()",
      "corrected_data = apply_corr(pattern, correction)",
      "corrected_data.name = f'Absorption corrected input_data: {pattern.name}'",
      "corrected_data.metadata = metadata.copy()",
      "if args.output_correction: _save_correction(correction, path, args)",
      "_save_corrected(corrected_data, path, args)">>
\* (run_zscan names its path pattern_path)
run_zscan_body ==
    <<"path = Path(args.xray_data)",
      "zscan_path = Path(args.zscan_file)",
      "wavelength = resolve_wavelength(args.wavelength)",
      "mud = compute_mud(zscan_path)",
      "args.mud = mud",
      "args.z_scan_file = str(zscan_path)",
      "metadata = _prepare_args(args, path)",
      "pattern = _load_pattern(path, args.xtype, wavelength, metadata)",
      "correction = compute_cve(pattern, mud)",
      "correction.metadata = metadata.copy()",
      "corrected_data = apply_corr(pattern, correction)",
      "corrected_data.name = f'Absorption corrected input_data: {pattern.name}'",
      "corrected_data.metadata = metadata.copy()",
      "_save_corrected(corrected_data, path, args)",
      "if args.output_correction: _save_correction(correction, path, args)">>

run_sample_body ==
    <<"path = Path(args.xray_data)",
      "wavelength = resolve_wavelength(args.wavelength)",
      "energy_kev = 12.398 / wavelength",
      "mud = compute_mu_using_xraydb(args.composition, energy_kev, args.density)",
      "args.mud = mud",
      "args.sample_composition = args.composition",
      "args.sample_mass_density = args.density",
      "args.energy = energy_kev",
      "metadata = _prepare_args(args, path)",
      "pattern = _load_pattern(path, args.xtype, wavelength, metadata)",
      "correction = compute_cve(pattern, mud)",
      "correction.metadata = metadata.copy()",
      "corrected_data = apply_corr(pattern, correction)",
      "corrected_data.name = f'Absorption corrected input_data: {pattern.name}'",
      "corrected_data.metadata = metadata.copy()",
      "_save_corrected(corrected_data, path, args)",
      "if args.output_correction: _save_correction(correction, path, args)">>

run_mud(st, env) == ExecAll(st, run_mud_body, env)
run_zscan(st, env) == ExecAll(st, run_zscan_body, env)
run_sample(st, env) == ExecAll(st, run_sample_body, env)

\* a call of the run_* function named fn
Run(fn, st, env) ==
    CASE fn = "run_mud" -> run_mud(st, env)
      [] fn = "run_zscan" -> run_zscan(st, env)
      [] fn = "run_sample" -> run_sample(st, env)

(***************************************************************************)
(* create_parser, get_args_cli and main.  argv is the command line as the  *)
(* parser reads it: the subcommand (None when there is none), the          *)
(* positional arguments and the options.                                   *)
(***************************************************************************)
Subcommands == {Str(<<"mud">>), Str(<<"zscan">>), Str(<<"sample">>)}

CommonArgs(argv) ==
    [command |-> argv.command,
     xray_data |-> argv.xray_data,
     wavelength |-> argv.wavelength,
     xtype |-> Str(<<"tth">>),
     method |-> Str(<<"polynomial_interpolation">>),
     target_dir |-> argv.target_dir,
     force |-> argv.force,
     output_correction |-> argv.output_correction,
     user_metadata |-> argv.user_metadata,
     username |-> Str(<<"Test", " ", "User">>),
     email |-> Str(<<"test@example.com">>),
     orcid |-> Str(<<"0000-0001-2345-6789">>)]

\* parser.parse_args(), which get_args_gui calls as well: the subcommand is
\* required and one of the three
\* the positional arguments of a subcommand's parser, after xray_data and
\* wavelength
Positionals(command) ==
    CASE command = Str(<<"mud">>) -> {"mud_value"}
      [] command = Str(<<"zscan">>) -> {"zscan_file"}
      [] command = Str(<<"sample">>) -> {"composition", "density"}

get_args_cli(argv) ==
    IF argv.command \notin Subcommands
    THEN Raised("SystemExit", "labpdfproc: error: argument command")
    ELSE IF \E a \in Positionals(argv.command) : argv[a] = None
    THEN Raised("SystemExit",
                "labpdfproc: error: the following arguments are required")
    ELSE Returned(
        CASE argv.command = Str(<<"mud">>) ->
                 setattr(CommonArgs(argv), "mud_value", argv.mud_value)
          [] argv.command = Str(<<"zscan">>) ->
                 setattr(CommonArgs(argv), "zscan_file", argv.zscan_file)
          [] argv.command = Str(<<"sample">>) ->
                 setattr(setattr(CommonArgs(argv), "composition", argv.composition),
                         "density", argv.density))

\* a dispatch that runs the mu*d subcommand whatever the command is
Dispatch_AlwaysMud(command) == "run_mud"
\* the if/elif chain of main
Dispatch(command) ==
    CASE command = Str(<<"mud">>) -> "run_mud"
      [] command = Str(<<"zscan">>) -> "run_zscan"
      [] command = Str(<<"sample">>) -> "run_sample"
      [] OTHER -> "raise"

\* main: the run's final state, with the function it ran
main(argv, env, files, directories) ==
    LET parsed == get_args_cli(argv)
    IN  IF parsed.kind = "raise"
        THEN [ran |-> "none", st |-> Fail(St0(None, files, directories), parsed)]
        ELSE LET st == St0(parsed.val, files, directories)
                 fn == Dispatch(st.args["command"])
             IN  [ran |-> fn,
                  st |-> CASE fn = "run_mud" -> run_mud(st, env)
                           [] fn = "run_zscan" -> run_zscan(st, env)
                           [] fn = "run_sample" -> run_sample(st, env)
                           [] OTHER -> Fail(st, Raised("ValueError",
                                  "Unknown command: " \o Cat(st.args["command"].s)))]

(***************************************************************************)
(* The command lines and the outside world of one run of main              *)
(***************************************************************************)
XrayData == Str(<<"data", ".", "xy">>)
RunWavelengths == {Str(<<"M", "o">>), Str(<<"x">>)}
TargetDirs == {None, Str(<<"out">>)}
Booleans == {Bool(FALSE), Bool(TRUE)}
RunUserMetadata ==
    {None,
     List(<< <<"facility", "=", "NSLS">> >>),
     List(<< <<"package_info", "=", "1">> >>),
     List(<< <<"output_directory", "=", "1">> >>),
     List(<< <<"mud", "=", "3">> >>),
     List(<< <<"mud_value", "=", "1">> >>)}

Argv(command, source) ==
    {[command |-> command, xray_data |-> XrayData, wavelength |-> w,
      target_dir |-> t, force |-> f, output_correction |-> c,
      user_metadata |-> u,
      mud_value |-> source.mud_value, zscan_file |-> source.zscan_file,
      composition |-> source.composition, density |-> source.density] :
        w \in RunWavelengths, t \in TargetDirs, f \in Booleans, c \in Booleans,
        u \in RunUserMetadata}

NoSource ==
    [mud_value |-> None, zscan_file |-> None, composition |-> None, density |-> None]
MudValues == {Float(FALSE, 25, 1), Float(TRUE, 1, 0)}
Densities == {Float(FALSE, 1, 0), Float(TRUE, 1, 0)}

Outcomes == {"return", "raise"}
\* what loadData, compute_cve, apply_corr and dump do in a run: all goes
\* well (dump leaving the metadata alone or not), or one of the calls raises
Library ==
    {[loadData |-> "return", compute_cve |-> "return", apply_corr |-> "return",
      dump |-> d] : d \in {"writes the file only", "sets creation_time"}}
    \cup {[loadData |-> "raise", compute_cve |-> "return", apply_corr |-> "return",
           dump |-> "writes the file only"],
          [loadData |-> "return", compute_cve |-> "raise", apply_corr |-> "return",
           dump |-> "writes the file only"],
          [loadData |-> "return", compute_cve |-> "return", apply_corr |-> "raise",
           dump |-> "writes the file only"]}
Env(library, compute_mud, xraydb) ==
    [loadData |-> library.loadData, compute_cve |-> library.compute_cve,
     apply_corr |-> library.apply_corr, dump |-> library.dump,
     compute_mud |-> compute_mud, xraydb |-> xraydb]
ComputeMudOutcomes ==
    {Returned(Float(FALSE, 25, 1)), Raised("ValueError", "compute_mud failed")}

MudInputs ==
    {<<a, e>> :
        a \in UNION {Argv(Str(<<"mud">>), [NoSource EXCEPT !.mud_value = m]) :
                        m \in MudValues},
        e \in {Env(l, Returned(None), "return") : l \in Library}}
ZscanInputs ==
    {<<a, e>> :
        a \in Argv(Str(<<"zscan">>),
                   [NoSource EXCEPT !.zscan_file = Str(<<"zscan", ".", "xy">>)]),
        e \in {Env(l, m, "return") : l \in Library, m \in ComputeMudOutcomes}}
SampleInputs ==
    {<<a, e>> :
        a \in UNION {Argv(Str(<<"sample">>),
                          [NoSource EXCEPT !.composition = Str(<<"CeO2">>),
                                           !.density = d]) : d \in Densities},
        e \in {Env(l, Returned(None), x) : l \in Library, x \in Outcomes}}
RejectedInputs ==
    {<<a, Env(CHOOSE l \in Library : l.dump = "sets creation_time",
              Returned(None), "return")>> :
        a \in UNION {Argv(c, NoSource) :
                        c \in {None, Str(<<"other">>)} \cup Subcommands}}
RunInputs == MudInputs \cup ZscanInputs \cup SampleInputs \cup RejectedInputs

(***************************************************************************)
(* The state machine                                                       *)
(***************************************************************************)
Dirs == {Cwd, "out"}
OutputPaths ==
    {d \o "/" \o Stem(XrayData.s) \o suffix :
        d \in Dirs, suffix \in {"_corrected.chi", "_cve.chi"}}
DirOf(p) == CHOOSE d \in Dirs :
    p \in {d \o "/" \o Stem(XrayData.s) \o suffix : suffix \in {"_corrected.chi", "_cve.chi"}}

NoRun == [ran |-> "none", argv |-> None, env |-> None, st |-> St0(None, <<>>, {})]

\* main has not run: any of the output files may be there already
Init ==
    /\ call = NoCall
    /\ fs \in [OutputPaths -> {NoFile, OldFile}]
    /\ dirs \in SUBSET Dirs
    /\ Cwd \in dirs
    /\ \A p \in OutputPaths : fs[p] # NoFile => DirOf(p) \in dirs
    /\ args = None
    /\ res = NoRun
    /\ pc = "start"

Main ==
    /\ pc = "start"
    /\ \E input \in RunInputs :
        LET r == main(input[1], input[2], fs, dirs)
        IN  /\ fs' = r.st.fs
            /\ dirs' = r.st.dirs
            /\ args' = r.st.args
            /\ res' = [ran |-> r.ran, argv |-> input[1], env |-> input[2], st |-> r.st]
    /\ pc' = "done"
    /\ UNCHANGED call

Next == Main

Spec == Init /\ [][Next]_vars

\* the helper functions, called on their own
InitFn ==
    /\ call = NoCall
    /\ fs = [p \in OutputPaths |-> NoFile]
    /\ dirs = {Cwd}
    /\ args = None
    /\ res = NoRun
    /\ pc = "start"

NextFn ==
    /\ \/ CallResolveWavelength
       \/ CallSetWavelength
       \/ CallLoadUserMetadataTools
       \/ CallLoadUserMetadataApp
    /\ UNCHANGED <<fs, dirs, args, res, pc>>

SpecFn == InitFn /\ [][NextFn]_vars

\* a caller that runs main and then calls the same run_* function once
\* more with the Namespace the first call left, in the same outside world
InitTwice ==
    /\ call = NoCall
    /\ fs = [p \in OutputPaths |-> NoFile]
    /\ dirs = {Cwd}
    /\ args = None
    /\ res = NoRun
    /\ pc = "start"

RunAgain ==
    /\ pc = "done"
    /\ res.ran \in {"run_mud", "run_zscan", "run_sample"}
    /\ LET st == Run(res.ran, St0(args, fs, dirs), res.env)
       IN  /\ fs' = st.fs
           /\ dirs' = st.dirs
           /\ args' = st.args
           /\ res' = [ran |-> res.ran, argv |-> res.argv, env |-> res.env,
                      st |-> st, first |-> res.st]
    /\ pc' = "again"
    /\ UNCHANGED call

NextTwice == Main \/ RunAgain

SpecTwice == InitTwice /\ [][NextTwice]_vars

(***************************************************************************)
(* The claims about the helper functions: properties of SpecFn             *)
(***************************************************************************)
\* the value a numeric input denotes: a float itself, a numeral its value
IsNumeric(w) == w # None /\ (w.type = "float" \/ FloatParses(w.s))
NumericValue(w) == IF w.type = "float" THEN w ELSE FloatOfStr(w.s)

\* the keys of the table that equal the text s, ignoring case and the
\* white space around s
KeysIgnoringCase(s) == {k \in DOMAIN WAVELENGTHS : Lower(k) = Lower(Strip(s))}

UnknownSourceMsg(s) ==
    "Unknown X-ray source '" \o Cat(s) \o "'. Allowed sources are: Ag, Cu, Mo."

\* C2: resolve_wavelength returns a numeric input as the same value, maps a
\* non-numeric input that names a key of WAVELENGTHS ignoring case (the
\* tests' MoKa1 and CuKa1 among them) to the key's wavelength, and raises
\* ValueError for every other input, for an unknown name with the message
\* "Unknown X-ray source '<input>'. Allowed sources are: Ag, Cu, Mo."
C2_ThreeWayMapping ==
    call.fn = "resolve_wavelength" =>
        LET w == call.arg
        IN  /\ IsNumeric(w) => call.out = Returned(NumericValue(w))
            /\ w \in {Str(<<"M", "o", "K", "a", "1">>), Str(<<"C", "u", "K", "a", "1">>)}
                   => call.out.kind = "return"
            /\ (~IsNumeric(w) /\ w # None /\ KeysIgnoringCase(w.s) # {}) =>
                   \E k \in KeysIgnoringCase(w.s) : call.out = Returned(WAVELENGTHS[k])
            /\ (~IsNumeric(w) /\ (w = None \/ KeysIgnoringCase(w.s) = {})) =>
                   /\ call.out.kind = "raise"
                   /\ call.out.exc = "ValueError"
                   /\ w # None => call.out.msg = UnknownSourceMsg(w.s)

\* C10: set_wavelength raises ValueError when a wavelength is given and is
\* <= 0, or when none is given and the anode_type given is not a key of
\* WAVELENGTHS; otherwise it returns the wavelength given, else the
\* wavelength of the anode_type given, else the Mo wavelength.
C10_SetWavelength ==
    call.fn = "set_wavelength" =>
        LET w == call.arg.wavelength
            a == call.arg.anode_type
            raises == \/ w # None /\ (w.neg \/ w.mant = 0)
                      \/ w = None /\ a # None /\ a.s \notin DOMAIN WAVELENGTHS
        IN  IF raises
            THEN call.out.kind = "raise" /\ call.out.exc = "ValueError"
            ELSE call.out =
                    Returned(IF w # None THEN w
                             ELSE IF a # None THEN WAVELENGTHS[a.s]
                             ELSE WAVELENGTHS[<<"M", "o">>])

\* the user metadata items of a call of a loader
ItemsOf(ns) ==
    IF ns["user_metadata"] = None THEN <<>> ELSE ns["user_metadata"].items

\* the position of the first "=" of an item that has one
FirstEq(item) ==
    CHOOSE i \in 1..Len(item) :
        item[i] = "=" /\ \A j \in 1..(i - 1) : item[j] # "="
\* the stripped text before the first "=", and the text after it
KeyOf(item) ==
    IF HasEq(item) THEN Cat(Strip(SubSeq(item, 1, FirstEq(item) - 1)))
    ELSE Cat(Strip(item))
ValueOf(item) == SubSeq(item, FirstEq(item) + 1, Len(item))

IsLoader(fn) == fn \in {"_load_user_metadata", "load_user_metadata"}
ReservedMsg(fn, key) ==
    IF fn = "_load_user_metadata"
    THEN key \o " is a reserved name. Please use a different key name."
    ELSE key \o " is a reserved name.  Please rerun using a different key name. "
FormatMsg ==
    "Please provide key-value pairs in the format key=value. "
    \o "For more information, use labpdfproc --help."

\* the items before position i all load: each has "=", a key that is no
\* attribute of ns, and no key twice
LoadBefore(ns, items, i) ==
    /\ \A j \in 1..(i - 1) : HasEq(items[j]) /\ KeyOf(items[j]) \notin DOMAIN ns
    /\ \A j, k \in 1..(i - 1) : j # k => KeyOf(items[j]) # KeyOf(items[k])

\* the attributes ns had when the call started have the values they had
KeepsAttributes(ns, out) ==
    \A k \in DOMAIN ns : k \in DOMAIN out.args /\ out.args[k] = ns[k]

\* C4 as stated: both loaders raise ValueError with the reserved-name
\* message for every user key that is an attribute of args when loading
\* starts, and the attribute keeps its value.
C4_ReservedAlways ==
    IsLoader(call.fn) =>
        \A i \in 1..Len(ItemsOf(call.arg)) :
            LET item == ItemsOf(call.arg)[i]
            IN  (HasEq(item) /\ KeyOf(item) \in DOMAIN call.arg) =>
                    /\ call.out.kind = "raise"
                    /\ call.out.exc = "ValueError"
                    /\ call.out.msg = ReservedMsg(call.fn, KeyOf(item))
                    /\ call.out.args[KeyOf(item)] = call.arg[KeyOf(item)]

\* C4 (amended): when a user key is an attribute of args when loading
\* starts, both loaders raise ValueError and every attribute args had keeps
\* its value; the message is the reserved-name message of that key when the
\* items before it all load (otherwise the earlier item's error is raised).
C4_ReservedName ==
    IsLoader(call.fn) =>
        \A i \in 1..Len(ItemsOf(call.arg)) :
            LET item == ItemsOf(call.arg)[i]
            IN  (HasEq(item) /\ KeyOf(item) \in DOMAIN call.arg) =>
                    /\ call.out.kind = "raise"
                    /\ call.out.exc = "ValueError"
                    /\ KeepsAttributes(call.arg, call.out)
                    /\ LoadBefore(call.arg, ItemsOf(call.arg), i) =>
                           call.out.msg = ReservedMsg(call.fn, KeyOf(item))

\* a reserved key after an item that loaded is refused, the attribute kept
C4_Witness ==
    /\ call.fn = "_load_user_metadata"
    /\ ItemsOf(call.arg) = << <<"facility", "=", "2">>, <<"wavelength", "=", "2">> >>
    /\ call.out.kind = "raise"
    /\ call.out.msg = "wavelength is a reserved name. Please use a different key name."
    /\ call.out.args["wavelength"] = Float(FALSE, 25, 1)

\* the attribute key of the Namespace a loader returned holds the text v
Loaded(out, key, v) ==
    out.kind = "return" /\ key \in DOMAIN out.args /\ out.args[key] = Str(v)

\* C8 as stated: an item with "=" is split at its first "=" only, the key
\* the stripped text before it and the value everything after it; every
\* item without "=" raises ValueError with the key=value format message.
C8_FirstEqualsAlways ==
    IsLoader(call.fn) =>
        \A i \in 1..Len(ItemsOf(call.arg)) :
            LET item == ItemsOf(call.arg)[i]
            IN  IF HasEq(item)
                THEN call.out.kind = "return" =>
                         Loaded(call.out, KeyOf(item), ValueOf(item))
                ELSE /\ call.out.kind = "raise"
                     /\ call.out.exc = "ValueError"
                     /\ call.out.msg = FormatMsg

\* C8 (amended): an item with "=" is split at its first "=" only, the key
\* the stripped text before it and the value everything after it (which
\* the app's _load_user_metadata strips of surrounding white space); a list
\* with an item without "=" raises ValueError, with the key=value format
\* message when the items before it all load.
C8_FirstEquals ==
    IsLoader(call.fn) =>
        \A i \in 1..Len(ItemsOf(call.arg)) :
            LET item == ItemsOf(call.arg)[i]
            IN  IF HasEq(item)
                THEN call.out.kind = "return" =>
                         Loaded(call.out, KeyOf(item),
                                IF call.fn = "_load_user_metadata"
                                THEN Strip(ValueOf(item)) ELSE ValueOf(item))
                ELSE /\ call.out.kind = "raise"
                     /\ call.out.exc = "ValueError"
                     /\ LoadBefore(call.arg, ItemsOf(call.arg), i) =>
                            call.out.msg = FormatMsg

\* tools.load_user_metadata has loaded x=y=z as x with the value y=z, after
\* an item whose value it kept with its white space
C8_Witness ==
    /\ call.fn = "load_user_metadata"
    /\ ItemsOf(call.arg) = << <<"facility", "=", " ", "2", " ">>,
                              <<"x", "=", "y", "=", "z">> >>
    /\ Loaded(call.out, "x", <<"y", "=", "z">>)
    /\ Loaded(call.out, "facility", <<" ", "2", " ">>)

\* C9: tools.load_user_metadata, given a key twice that is no attribute of
\* args (each item well formed), raises ValueError with the message
\* "Please do not specify repeated keys: <key>. "
C9_RepeatedKey ==
    call.fn = "load_user_metadata" =>
        LET items == ItemsOf(call.arg)
        IN  \A i, j \in 1..Len(items) :
                (/\ i < j
                 /\ \A k \in 1..Len(items) :
                        HasEq(items[k]) /\ KeyOf(items[k]) \notin DOMAIN call.arg
                 /\ KeyOf(items[i]) = KeyOf(items[j])) =>
                    /\ call.out.kind = "raise"
                    /\ call.out.exc = "ValueError"
                    /\ call.out.msg =
                           "Please do not specify repeated keys: "
                           \o KeyOf(items[i]) \o ". "

(***************************************************************************)
(* The claims about a run of main: properties of Spec                      *)
(***************************************************************************)
Happened(op) == \E i \in 1..Len(res.st.events) : res.st.events[i].op = op
HappenedAt(op, at) == Event(op, at) \in {res.st.events[i] : i \in 1..Len(res.st.events)}

\* the same of the run that a step completes
HappenedNext(op) == \E i \in 1..Len(res'.st.events) : res'.st.events[i].op = op
HappenedAtNext(op, at) ==
    Event(op, at) \in {res'.st.events[i] : i \in 1..Len(res'.st.events)}

\* the file a run of the command line argv saves its output with suffix to
SavePath(argv, suffix) ==
    (IF argv.target_dir = None THEN "." ELSE Cat(argv.target_dir.s))
    \o "/data" \o suffix

\* the two save functions, by the statement that calls them, the file name
\* suffix they use and whether the command line lets the call happen
SaveCalls(argv) ==
    {[stmt |-> "_save_corrected(corrected_data, path, args)",
      suffix |-> "_corrected.chi"]}
    \cup IF argv.output_correction = Bool(TRUE)
         THEN {[stmt |-> "if args.output_correction: _save_correction(correction, path, args)",
                suffix |-> "_cve.chi"]}
         ELSE {}

\* C1: when _save_corrected or _save_correction finds its output path
\* existing and force is not set, it warns, dumps nothing and leaves the
\* file as it was; a run changes an existing file only when force is set.
C1_NoSilentOverwrite ==
    [][(pc = "start" /\ pc' = "done") =>
          /\ \A s \in SaveCalls(res'.argv) :
                LET p == SavePath(res'.argv, s.suffix)
                IN  (/\ HappenedNext(s.stmt)
                     /\ fs[p] # NoFile
                     /\ res'.argv.force = Bool(FALSE)) =>
                        /\ HappenedAtNext("warn", p)
                        /\ ~HappenedAtNext("dump", p)
                        /\ fs'[p] = fs[p]
          /\ \A p \in DOMAIN fs :
                (fs[p] # NoFile /\ (fs'[p] # fs[p] \/ HappenedAtNext("dump", p))) =>
                    res'.argv.force = Bool(TRUE)]_vars

\* a run without force found its corrected file there, warned and kept it
C1_Witness ==
    /\ pc = "done"
    /\ res.argv.force = Bool(FALSE)
    /\ res.argv.target_dir = None
    /\ Happened("_save_corrected(corrected_data, path, args)")
    /\ HappenedAt("warn", "./data_corrected.chi")
    /\ fs["./data_corrected.chi"] = OldFile

\* the statements of run_* among the events of the run
SaveOps == {"mkdir", "warn", "dump", "set corrected.metadata", "set correction.metadata"}
Statements ==
    LET stmts == SelectSeq(res.st.events, LAMBDA e : e.op \notin SaveOps)
    IN  [i \in 1..Len(stmts) |-> stmts[i].op]
IsPrefix(s, body) == Len(s) <= Len(body) /\ s = SubSeq(body, 1, Len(s))

\* C6: a run of main executes exactly one of run_mud, run_zscan and
\* run_sample, the one args.command names; a command line with no command,
\* another command or no mu*d source for its command is rejected with an
\* error before any stage runs.
C6_OneSource ==
    pc = "done" =>
        LET c == res.argv.command
        IN  CASE c = Str(<<"mud">>) /\ res.argv.mud_value # None ->
                    res.ran = "run_mud" /\ IsPrefix(Statements, run_mud_body)
              [] c = Str(<<"zscan">>) /\ res.argv.zscan_file # None ->
                    res.ran = "run_zscan" /\ IsPrefix(Statements, run_zscan_body)
              [] c = Str(<<"sample">>) /\ res.argv.composition # None
                                      /\ res.argv.density # None ->
                    res.ran = "run_sample" /\ IsPrefix(Statements, run_sample_body)
              [] OTHER ->
                    /\ res.ran = "none"
                    /\ res.st.err # None
                    /\ res.st.events = <<>>
                    /\ args = None

\* a zscan run went through all of run_zscan, and only it
C6_Witness ==
    /\ pc = "done"
    /\ res.argv.command = Str(<<"zscan">>)
    /\ res.ran = "run_zscan"
    /\ res.st.err = None
    /\ Statements = run_zscan_body

\* the position of a statement among the statements the run executed
StatementIndex(stmt) == CHOOSE i \in 1..Len(Statements) : Statements[i] = stmt
SetsArgsMud == {"args.mud = args.mud_value", "args.mud = mud"}
ComputesCve ==
    {"correction = compute_cve(pattern, args.mud)",
     "correction = compute_cve(pattern, mud)"}

\* the mapping md holds every pair of the user's items, as the app reads them
HoldsUserPairs(md, items) ==
    \A i \in 1..Len(items) :
        /\ KeyOf(items[i]) \in DOMAIN md
        /\ md[KeyOf(items[i])] = Str(Strip(ValueOf(items[i])))

\* C3: in every run_*, args.mud is set before _prepare_args builds the
\* metadata, so the metadata of the corrected output holds mud, equal to
\* the value handed to compute_cve, and every pair the user supplied.
C3_MudInMetadata ==
    (pc = "done" /\ Happened("corrected_data.metadata = metadata.copy()")) =>
        /\ \E s \in SetsArgsMud :
              /\ Happened(s)
              /\ StatementIndex(s) < StatementIndex("metadata = _prepare_args(args, path)")
        /\ "mud" \in DOMAIN res.st.corrected.metadata
        /\ res.st.corrected.metadata["mud"] = res.st.cve_mud
        /\ HoldsUserPairs(res.st.corrected.metadata, ItemsOf(res.argv))

\* the keys the pipeline itself sets on args_copy
PipelineKeys == {"output_directory", "package_info"}

\* C5: every user key _prepare_args accepts reaches load_metadata with the
\* user's value, and a user key that is a key the pipeline sets itself
\* (output_directory, package_info) fails with ValueError.
C5_UserKeysKept ==
    (pc = "done" /\ Happened("metadata = _prepare_args(args, path)")) =>
        /\ res.st.metadata # None =>
               HoldsUserPairs(res.st.args_copy, ItemsOf(res.argv))
        /\ \A i \in 1..Len(ItemsOf(res.argv)) :
               KeyOf(ItemsOf(res.argv)[i]) \in PipelineKeys =>
                   /\ res.st.err # None
                   /\ res.st.err.exc = "ValueError"

IsNegative(x) == x # None /\ x.type = "float" /\ x.neg

\* C7: the mu*d handed to compute_cve is never negative; a negative
\* explicit mu*d or a negative density is rejected with an error before
\* compute_cve is called and before any output is written.
C7_MudNotNegative ==
    pc = "done" =>
        /\ (\E s \in ComputesCve : Happened(s)) => ~IsNegative(res.st.cve_mud)
        /\ (IsNegative(res.argv.mud_value) \/ IsNegative(res.argv.density)) =>
               /\ res.st.err # None
               /\ \A s \in ComputesCve : ~Happened(s)
               /\ ~Happened("dump")

\* a mapping without the key creation_time
WithoutCreationTime(md) == [k \in DOMAIN md \ {"creation_time"} |-> md[k]]

\* C11: after a run the metadata of the input pattern, of the correction
\* curve and of the corrected pattern are three distinct dicts with the
\* content _prepare_args built, and a key the save step sets in one of them
\* (creation_time, by dump) is in no dict but that of the object dumped.
C11_MetadataCopied ==
    (pc = "done" /\ Happened("corrected_data.metadata = metadata.copy()")) =>
        LET pattern == res.st.pattern
            correction == res.st.correction
            corrected == res.st.corrected
        IN  /\ pattern.metadata_id # correction.metadata_id
            /\ pattern.metadata_id # corrected.metadata_id
            /\ correction.metadata_id # corrected.metadata_id
            /\ \A obj \in {pattern, correction, corrected} :
                   WithoutCreationTime(obj.metadata) = res.st.metadata
            /\ "creation_time" \notin DOMAIN pattern.metadata
            /\ "creation_time" \in DOMAIN correction.metadata =>
                   HappenedAt("dump", SavePath(res.argv, "_cve.chi"))
            /\ "creation_time" \in DOMAIN corrected.metadata =>
                   HappenedAt("dump", SavePath(res.argv, "_corrected.chi"))

\* the dump of the corrected pattern set creation_time in its metadata and
\* the other two dicts do not have the key
C11_Witness ==
    /\ pc = "done"
    /\ res.env.dump = "sets creation_time"
    /\ res.argv.output_correction = Bool(FALSE)
    /\ HappenedAt("dump", SavePath(res.argv, "_corrected.chi"))
    /\ "creation_time" \in DOMAIN res.st.corrected.metadata
    /\ "creation_time" \notin DOMAIN res.st.correction.metadata
    /\ "creation_time" \notin DOMAIN res.st.pattern.metadata
    /\ res.st.correction.metadata = res.st.pattern.metadata

\* the mu*d command line that gives run_mud the mu*d another run resolved
MudArgv(argv, mud) ==
    [argv EXCEPT !.command = Str(<<"mud">>), !.mud_value = mud,
                 !.zscan_file = None, !.composition = None, !.density = None]

\* the stages from the preparation of the metadata on, each with the file
\* it acts on; the two spellings of the compute_cve call are one stage
StageOf(e) == IF e.op \in ComputesCve THEN Event("compute_cve", e.at) ELSE e
Downstream(events) ==
    LET from == {i \in 1..Len(events) :
                    events[i].op = "metadata = _prepare_args(args, path)"}
    IN  IF from = {} THEN <<>>
        ELSE LET first == CHOOSE i \in from : \A j \in from : i <= j
             IN  [i \in 1..(Len(events) - first + 1) |->
                     StageOf(events[first + i - 1])]
StagesOf(events) ==
    LET stmts == SelectSeq(Downstream(events), LAMBDA e : e.op \notin SaveOps)
    IN  [i \in 1..Len(stmts) |-> stmts[i].op]

\* the stages downstream of the mu*d resolution
PipelineStages ==
    <<"metadata = _prepare_args(args, path)",
      "pattern = _load_pattern(path, args.xtype, wavelength, metadata)",
      "compute_cve",
      "correction.metadata = metadata.copy()",
      "corrected_data = apply_corr(pattern, correction)",
      "corrected_data.name = f'Absorption corrected input_data: {pattern.name}'",
      "corrected_data.metadata = metadata.copy()",
      "_save_corrected(corrected_data, path, args)",
      "if args.output_correction: _save_correction(correction, path, args)">>

\* the metadata keys that record where the mu*d came from
SourceKeys ==
    {"command", "mud_value", "zscan_file", "z_scan_file", "composition",
     "density", "sample_composition", "sample_mass_density", "energy"}
WithoutSourceKeys(md) == [k \in DOMAIN md \ SourceKeys |-> md[k]]
UserKeys(argv) == {KeyOf(ItemsOf(argv)[i]) : i \in 1..Len(ItemsOf(argv))}

\* two files hold the same output but for the source keys of the metadata
SameButSource(f, g) ==
    IF f \in {NoFile, OldFile} \/ g \in {NoFile, OldFile} THEN f = g
    ELSE /\ f.type = g.type
         /\ f.name = g.name
         /\ f.mud = g.mud
         /\ WithoutSourceKeys(f.metadata) = WithoutSourceKeys(g.metadata)

\* a step completes a run of run_zscan or run_sample that resolved its mu*d
ResolvedMud ==
    /\ pc' = "done"
    /\ res'.ran \in {"run_zscan", "run_sample"}
    /\ res'.st.mud # None

\* C12 as stated: run_zscan and run_sample, once they have their mu*d, do
\* what run_mud does with that mu*d, the same pattern and the same options,
\* and leave the same files.
C12_SameOutputs ==
    [][ResolvedMud =>
          LET twin == main(MudArgv(res'.argv, res'.st.mud), res'.env, fs, dirs).st
          IN  /\ Downstream(twin.events) = Downstream(res'.st.events)
              /\ twin.fs = fs'
              /\ twin.dirs = dirs']_vars

\* C12: downstream of the mu*d resolution run_zscan and run_sample go
\* through the stages of run_mud in the same order, hand compute_cve the
\* resolved mu*d and, when no user key is the name of a source argument, end
\* as run_mud does with that mu*d: the same error or the same files at the
\* same paths, alike but for the metadata keys that record the source.
C12_SamePipeline ==
    [][ResolvedMud =>
          LET twin == main(MudArgv(res'.argv, res'.st.mud), res'.env, fs, dirs).st
              mine == res'.st
          IN  /\ IsPrefix(StagesOf(mine.events), PipelineStages)
              /\ IsPrefix(StagesOf(twin.events), PipelineStages)
              /\ mine.err = None => StagesOf(mine.events) = PipelineStages
              /\ mine.cve_mud # None => mine.cve_mud = mine.mud
              /\ UserKeys(res'.argv) \cap SourceKeys = {} =>
                    /\ Downstream(twin.events) = Downstream(mine.events)
                    /\ twin.err = mine.err
                    /\ twin.cve_mud = mine.cve_mud
                    /\ twin.dirs = dirs'
                    /\ \A p \in OutputPaths : SameButSource(twin.fs[p], fs'[p])]_vars

\* a z-scan run saved both outputs
C12_Witness ==
    /\ pc = "done"
    /\ res.ran = "run_zscan"
    /\ res.st.err = None
    /\ res.argv.output_correction = Bool(TRUE)
    /\ HappenedAt("dump", SavePath(res.argv, "_corrected.chi"))
    /\ HappenedAt("dump", SavePath(res.argv, "_cve.chi"))
    /\ fs[SavePath(res.argv, "_corrected.chi")].metadata["command"] = Str(<<"zscan">>)

\* the correction curve as compute_cve returned it in the run
Created == compute_cve(res.st.pattern, res.st.cve_mud)
ApplyCorr == "corrected_data = apply_corr(pattern, correction)"
SaveCorrection == "if args.output_correction: _save_correction(correction, path, args)"
Indices(op) == {i \in 1..Len(res.st.events) : res.st.events[i].op = op}
CveReads == Indices("set correction.metadata") \cup
            {i \in Indices("dump") :
                res.st.events[i].at = SavePath(res.argv, "_cve.chi")}

\* C13 as stated: once compute_cve has returned the correction curve no
\* step assigns to an attribute of it, and nothing but apply_corr reads it.
C13_NeverMutated ==
    (pc = "done" /\ res.st.correction # None) =>
        /\ res.st.correction = Created
        /\ CveReads = {}

\* C13: the data of the correction curve (its name and its values) stay as
\* compute_cve returned them and only its metadata attribute is assigned;
\* apply_corr reads the curve once, and besides apply_corr only
\* _save_correction reads it, after apply_corr and only when
\* output_correction is set.
C13_DataNeverMutated ==
    (pc = "done" /\ res.st.correction # None) =>
        /\ [res.st.correction EXCEPT !.metadata = Created.metadata,
                                     !.metadata_id = Created.metadata_id] = Created
        /\ Cardinality(Indices(ApplyCorr)) <= 1
        /\ res.st.err = None => Cardinality(Indices(ApplyCorr)) = 1
        /\ res.st.corrected # None => res.st.corrected.curve = Created.mud
        /\ \A i \in CveReads :
              /\ res.argv.output_correction = Bool(TRUE)
              /\ \E j \in Indices(SaveCorrection) : j < i
              /\ \E j \in Indices(ApplyCorr) : j < i

\* the correction curve got its copy of the metadata, was applied and saved
C13_Witness ==
    /\ pc = "done"
    /\ res.st.err = None
    /\ res.st.correction.metadata_id = "copy 1"
    /\ res.st.correction.name = Created.name
    /\ res.st.corrected.curve = res.st.correction.mud
    /\ HappenedAt("dump", SavePath(res.argv, "_cve.chi"))
    /\ fs[SavePath(res.argv, "_cve.chi")].name = Created.name

\* the same of the run that a step completes
IndicesNext(op) == {i \in 1..Len(res'.st.events) : res'.st.events[i].op = op}
SavedNext == UNION {IndicesNext(op) : op \in {"mkdir", "warn", "dump"}}

\* the six stages before the save, each by the statements that are it
StagesBeforeSave ==
    {{"wavelength = resolve_wavelength(args.wavelength)"},
     {"args.mud = args.mud_value", "mud = compute_mud(zscan_path)",
      "mud = compute_mu_using_xraydb(args.composition, energy_kev, args.density)"},
     {"metadata = _prepare_args(args, path)"},
     {"pattern = _load_pattern(path, args.xtype, wavelength, metadata)"},
     ComputesCve,
     {ApplyCorr}}

\* the command line and the outside world make a stage of the run raise
StageRaises(r) ==
    \/ r.argv.wavelength = Str(<<"x">>)
    \/ r.ran = "run_zscan" /\ r.env.compute_mud.kind = "raise"
    \/ r.ran = "run_sample" /\ r.env.xraydb = "raise"
    \/ "mud" \in UserKeys(r.argv)
    \/ r.env.loadData = "raise"
    \/ r.env.compute_cve = "raise"
    \/ r.env.apply_corr = "raise"

\* C14: a run_* function creates the target directory and writes a file
\* only after wavelength resolution, mu*d resolution, metadata preparation,
\* pattern loading, compute_cve and apply_corr; when one of these raises
\* the run ends with that exception and has created no directory and
\* written no file.
C14_NoPartialOutput ==
    [][(pc' = "done" /\ res'.ran # "none") =>
          /\ \A i \in SavedNext : \A stage \in StagesBeforeSave :
                \E op \in stage : \E j \in IndicesNext(op) : j < i
          /\ StageRaises(res') => res'.st.err # None
          /\ res'.st.err # None =>
                /\ SavedNext = {}
                /\ fs' = fs
                /\ dirs' = dirs
                /\ res'.st.corrected = None \/ res'.st.correction = None
                   \/ res'.st.pattern = None]_vars

\* apply_corr raised in a run that was to create the directory out and
\* write both files there: there is no directory and no file
C14_Witness ==
    /\ pc = "done"
    /\ res.env.apply_corr = "raise"
    /\ res.st.err = [exc |-> "ValueError", msg |-> "apply_corr failed"]
    /\ res.st.correction # None
    /\ res.argv.target_dir = Str(<<"out">>)
    /\ res.argv.output_correction = Bool(TRUE)
    /\ "out" \notin dirs
    /\ \A p \in OutputPaths : fs[p] = NoFile

\* the attributes the run_* functions set on the caller's Namespace
RunSets == {"mud", "z_scan_file", "sample_composition", "sample_mass_density", "energy"}

\* C15: a run_* function leaves the caller's Namespace as it was parsed but
\* for the attributes run_* sets itself: whether _prepare_args returned or
\* raised, args has gained no user-metadata key, no output_directory and no
\* package_info, and username, email and orcid are unchanged; a second call
\* of the same run_* function with that Namespace ends as the first did,
\* never with an error the first call did not raise.
C15_CallerArgsKept ==
    (pc \in {"done", "again"} /\ res.ran \in {"run_mud", "run_zscan", "run_sample"}) =>
        LET parsed == get_args_cli(res.argv).val
        IN  /\ DOMAIN args \ DOMAIN parsed \subseteq RunSets
            /\ \A k \in DOMAIN parsed : args[k] = parsed[k]
            /\ "output_directory" \notin DOMAIN args
            /\ "package_info" \notin DOMAIN args
            /\ \A k \in (UserKeys(res.argv) \cap DOMAIN args) \ DOMAIN parsed :
                  k \in RunSets /\ args[k].type = "float"
            /\ pc = "again" => res.st.err = res.first.err

\* the first call loaded a user key and saved, the second call with the
\* Namespace it left loaded the key again and found the file
C15_Witness ==
    /\ pc = "again"
    /\ UserKeys(res.argv) = {"facility"}
    /\ res.first.err = None
    /\ res.st.err = None
    /\ res.first.args_copy["facility"] = Str(<<"NSLS">>)
    /\ res.st.args_copy["facility"] = Str(<<"NSLS">>)
    /\ "facility" \notin DOMAIN args
    /\ res.argv.force = Bool(FALSE)
    /\ HappenedAt("warn", SavePath(res.argv, "_corrected.chi"))

\* _prepare_args raised in both calls for the same user key
C15_WitnessRaised ==
    /\ pc = "again"
    /\ UserKeys(res.argv) = {"output_directory"}
    /\ res.first.err # None
    /\ res.st.err = res.first.err

SaveCorrected == "_save_corrected(corrected_data, path, args)"
\* the events of the completed run that act on the file at
AtNext(at) == {i \in 1..Len(res'.st.events) : res'.st.events[i].at = at}

\* C16: the correction curve is written to <input stem>_cve.chi only when
\* output_correction is set and after the corrected-pattern step; whether
\* it is written depends on its own path and force only, so it is written
\* to a free path also when the corrected pattern was skipped as existing;
\* the two outputs of a run never have the same path.
C16_CorrectionSavedOnItsOwn ==
    [][(pc' = "done" /\ res'.ran # "none") =>
          LET corrected == SavePath(res'.argv, "_corrected.chi")
              cve == SavePath(res'.argv, "_cve.chi")
              wanted == res'.argv.output_correction = Bool(TRUE)
          IN  /\ corrected # cve
              /\ \A i \in AtNext(cve) :
                    /\ wanted
                    /\ \E j \in IndicesNext(SaveCorrected) : j < i
                    /\ \E j \in AtNext(corrected) : j < i
              /\ ~wanted => fs'[cve] = fs[cve]
              /\ (wanted /\ IndicesNext(SaveCorrected) # {}) =>
                    /\ HappenedAtNext("dump", cve) <=>
                           ~(Exists(fs, cve) /\ res'.argv.force = Bool(FALSE))
                    /\ HappenedAtNext("dump", cve) =>
                           /\ fs'[cve] \notin {NoFile, OldFile}
                           /\ fs'[cve].name = res'.st.correction.name]_vars

\* the corrected pattern was skipped as existing and the correction curve
\* was written to its free path
C16_Witness ==
    /\ pc = "done"
    /\ res.argv.force = Bool(FALSE)
    /\ res.argv.output_correction = Bool(TRUE)
    /\ HappenedAt("warn", SavePath(res.argv, "_corrected.chi"))
    /\ HappenedAt("dump", SavePath(res.argv, "_cve.chi"))
    /\ fs[SavePath(res.argv, "_corrected.chi")] = OldFile
    /\ fs[SavePath(res.argv, "_cve.chi")] \notin {NoFile, OldFile}
    /\ fs[SavePath(res.argv, "_cve.chi")].name = res.st.correction.name

====
